---------------------------- MODULE Spec2Model ----------------------------
(***************************************************************************)
(* State-machine model of LinkedInJobScraper (src/main.py).                *)
(*                                                                         *)
(* One object with its Record Store jobs_data; the public methods are      *)
(* called from the idle state and run step by step.  The web (listing      *)
(* pages, detail pages, statuses, exceptions) is the environment: every    *)
(* response is drawn from a bounded set at the step that issues the GET.   *)
(*                                                                         *)
(* Texts are sequences of tokens, so that strip(), lower(), the substring  *)
(* test and the [:500] slice are computed and not assumed.  Python's None  *)
(* is the sentinel None; a markup element is a record with a `present`     *)
(* flag (find() returning None is present = FALSE).                        *)
(*                                                                         *)
(* A listing page is fixed by the site when it answers, and the loop of    *)
(* parse_job_listing reads card k at its turn k only: the number of cards  *)
(* is drawn with the answer and the markup of card k at turn k.            *)
(***************************************************************************)
EXTENDS Integers, Sequences, FiniteSets, TLC

VARIABLES
    pc,             \* position of the single control thread
    entry,          \* the public method called from idle
    jobs_data,      \* self.jobs_data, the Record Store
    max_pages,      \* search_jobs: parameter max_pages
    page,           \* search_jobs: loop variable page
    n_cards,        \* parse_job_listing: len(job_cards)
    card_i,         \* parse_job_listing: position in job_cards of the loop's card
    job_data,       \* extract_job_data: job_data
    job_url,        \* get_detailed_job_info: parameter job_url
    detailed_data,  \* get_detailed_job_info: detailed_data
    soup,           \* get_detailed_job_info: the parsed detail page
    item_i,         \* get_detailed_job_info: position of the loop over criteria_items
    ret,            \* value returned by a direct call of get_detailed_job_info
    listing_reqs,   \* history: listing GETs issued by the current search_jobs call
    base,           \* history: length of jobs_data when parse_job_listing was entered
    expected,       \* history: the listing fields of the cards of the current page
                    \*          that extract_job_data accepted, in the order of the page
    last,           \* history: <<page, position>> of the card whose record the current
                    \*          call appended last, <<-1, 0>> before its first append
    aborted,        \* history: the current search_jobs call took one of its two `break`s
    d_outcome,      \* history: how the current get_detailed_job_info call went
    d_slept,        \* history: number of sleeps of the current get_detailed_job_info call
    io              \* history: the I/O performed by the last step

vars == <<pc, entry, jobs_data, max_pages, page, n_cards, card_i, job_data,
          job_url, detailed_data, soup, item_i, ret, listing_reqs, base, expected,
          last, aborted, d_outcome, d_slept, io>>

---------------------------------------------------------------------------
(* Bounds of the model *)

MaxPages == 2
MaxCards == 2
MaxJobs == 3
MaxCriteria == 2

(* Program constants *)

PageSize == 25
DescLimit == 500
HttpOk == 200

---------------------------------------------------------------------------
(* Values *)

None == <<"None">>
NA == <<"N/A">>
Empty == <<>>

Min(a, b) == IF a < b THEN a ELSE b

IsSpace(t) == t = " "

RECURSIVE LStrip(_)
LStrip(s) == IF s # <<>> /\ IsSpace(Head(s)) THEN LStrip(Tail(s)) ELSE s

RECURSIVE RStrip(_)
RStrip(s) ==
    IF s # <<>> /\ IsSpace(s[Len(s)]) THEN RStrip(SubSeq(s, 1, Len(s) - 1)) ELSE s

\* str.strip()
Strip(s) == RStrip(LStrip(s))

LowerTok(t) ==
    CASE t = "Seniority" -> "seniority"
      [] t = "Employment" -> "employment"
      [] t = "EMPLOYMENT" -> "employment"
      [] t = "TYPE" -> "type"
      [] t = "Job" -> "job"
      [] t = "Industries" -> "industries"
      [] t = "Other" -> "other"
      [] OTHER -> t

\* str.lower()
Lower(s) == [i \in 1..Len(s) |-> LowerTok(s[i])]

\* needle in hay
Contains(hay, needle) ==
    \E i \in 0..(Len(hay) - Len(needle)) :
        SubSeq(hay, i + 1, i + Len(needle)) = needle

\* text[:500] + "..."
Truncate(text) == SubSeq(text, 1, Min(Len(text), DescLimit)) \o <<"...">>

\* dict.update
Update(a, b) ==
    [k \in (DOMAIN a) \cup (DOMAIN b) |-> IF k \in DOMAIN b THEN b[k] ELSE a[k]]

NoElem == [present |-> FALSE, text |-> Empty]
Elem(t) == [present |-> TRUE, text |-> t]
NoTag == [present |-> FALSE, attr |-> None]
Tag(a) == [present |-> TRUE, attr |-> a]

\* Tag.get(name): the attribute, None when the tag does not carry it
Get(tag) == tag.attr

\* Truth value of the result of find(): None is false, a Tag is always true
Truthy(elem) == elem.present

---------------------------------------------------------------------------
(* The environment: what the site can answer *)

\* Status codes other than 200 that a GET can return
BadStatuses == {404, 429}

RECURSIVE SeqsUpTo(_, _)
SeqsUpTo(S, n) ==
    IF n = 0 THEN {<<>>}
    ELSE LET shorter == SeqsUpTo(S, n - 1)
         IN  shorter \cup {Append(q, x) : q \in {r \in shorter : Len(r) = n - 1}, x \in S}

\* Job cards (div.base-search-card) of a listing page
CardFull ==
    [title |-> Elem(<<" ", "T", " ">>), company |-> Elem(<<"C", " ">>),
     location |-> Elem(<<" ", "L">>), time |-> Tag(<<"2024-01-01">>),
     link |-> Tag(<<"u1">>), raises |-> FALSE]
CardBare ==
    [CardFull EXCEPT !.location = NoElem, !.time = NoTag, !.link = Tag(NA)]
CardNoTitle == [CardFull EXCEPT !.title = NoElem]
CardNoCompany == [CardFull EXCEPT !.company = NoElem]
CardNoLink == [CardFull EXCEPT !.link = NoTag]
CardNoHref == [CardFull EXCEPT !.link = Tag(None), !.time = Tag(None)]
CardEmptyHref == [CardFull EXCEPT !.link = Tag(Empty)]
\* a card on which a query of the markup library raises
CardRaises == [CardFull EXCEPT !.raises = TRUE]

Cards ==
    {CardFull, CardBare, CardNoTitle, CardNoCompany, CardNoLink, CardNoHref,
     CardEmptyHref, CardRaises}

\* The numbers of cards of the listing pages offered while the store holds n records
PageSizes(n) == 0..Min(MaxCards, MaxJobs - n)

\* Criteria items (li.description__job-criteria-item) of a detail page
Labels ==
    {<<"Seniority", " ", "level">>,
     <<" ", "Employment", " ", "type">>,
     <<"EMPLOYMENT", " ", "TYPE">>,
     <<"Job", " ", "function">>,
     <<"Industries">>,
     <<"Industries", " ", "Employment", " ", "type">>,
     <<"level", " ", "Seniority">>,
     <<"Other">>}
Values == {<<"v1">>, <<" ", "v2">>}

Items ==
    {[subtitle |-> Elem(l), text |-> Elem(v)] : l \in Labels, v \in Values}
        \cup {[subtitle |-> NoElem, text |-> Elem(<<"v1">>)],
              [subtitle |-> Elem(<<"Industries">>), text |-> NoElem]}

DescElems == {NoElem, Elem(<<" ", "d", "e", "s", "c">>)}

NoSoup == [desc |-> NoElem, items |-> <<>>, contact |-> FALSE]

\* Detail pages answered to a direct call of get_detailed_job_info
DetailPages ==
    [desc : DescElems, items : SeqsUpTo(Items, MaxCriteria), contact : BOOLEAN]

\* Detail pages answered during a search
SearchPages ==
    {NoSoup,
     [desc |-> Elem(<<" ", "d", "e", "s", "c">>),
      items |-> <<[subtitle |-> Elem(<<"Seniority", " ", "level">>),
                   text |-> Elem(<<"v1">>)]>>,
      contact |-> TRUE]}

PagesFor(e) == IF e = "get_detailed_job_info" THEN DetailPages ELSE SearchPages

\* URLs given to a direct call of get_detailed_job_info
Urls == {None, Empty, NA, <<"u1">>}

---------------------------------------------------------------------------
(* Helpers of the methods *)

Defaults ==
    [description |-> NA, seniority_level |-> NA, employment_type |-> NA,
     job_function |-> NA, industries |-> NA, contact_info |-> NA]

NoJob == [title |-> None]

NoPosition == <<-1, 0>>

\* continue in the place of break
AfterListingFailureContinue == "s_sleep"

\* Where a failed page cycle of search_jobs goes: break
AfterListingFailure == "s_break"

\* page * 25
Offset(p) == p * PageSize

\* a loop that runs one page too far
InRangeInclusive(p, n) == p <= n

\* for page in range(max_pages)
InRange(p, n) == p < n

\* all([title_elem, company_elem, link_elem])
HasEssential(card) ==
    Truthy(card.title) /\ Truthy(card.company) /\ Truthy(card.link)

\* the job_data dictionary built from a card
ListingFields(card) ==
    [title |-> IF Truthy(card.title) THEN Strip(card.title.text) ELSE NA,
     company |-> IF Truthy(card.company) THEN Strip(card.company.text) ELSE NA,
     location |-> IF Truthy(card.location) THEN Strip(card.location.text) ELSE NA,
     date_posted |-> IF Truthy(card.time) THEN Get(card.time) ELSE NA,
     job_url |-> IF Truthy(card.link) THEN Get(card.link) ELSE NA]

\* insert(0, job_data) in the place of append
AppendJobFront(store, job) == <<job>> \o store

\* self.jobs_data = [job_data] in the place of append
AppendJobReset(store, job) == <<job>>

\* self.jobs_data.append(job_data)
AppendJob(store, job) == Append(store, job)

\* not job_url, without the test for 'N/A'
IsNoUrlFalsyOnly(u) == u = None \/ u = Empty

\* not job_url or job_url == 'N/A'
IsNoUrl(u) == u = None \/ u = Empty \/ u = NA

\* response.status_code != 200
IsFailure(status) == status # HttpOk

SeniorityLevel == <<"seniority", " ", "level">>
EmploymentType == <<"employment", " ", "type">>
JobFunction == <<"job", " ", "function">>
IndustriesKey == <<"industries">>

\* The category the if/elif chain files a lower-cased label under
Classify(subtitle_text) ==
    IF Contains(subtitle_text, SeniorityLevel) THEN "seniority_level"
    ELSE IF Contains(subtitle_text, EmploymentType) THEN "employment_type"
    ELSE IF Contains(subtitle_text, JobFunction) THEN "job_function"
    ELSE IF Contains(subtitle_text, IndustriesKey) THEN "industries"
    ELSE "none"

\* a loop body that keeps the first value of a category
SetCriteriaFirstWins(dd, item) ==
    IF Truthy(item.subtitle) /\ Truthy(item.text)
    THEN LET field == Classify(Lower(Strip(item.subtitle.text)))
         IN  IF field = "none" \/ dd[field] # NA THEN dd
             ELSE [dd EXCEPT ![field] = Strip(item.text.text)]
    ELSE dd

\* The body of the loop over criteria_items
SetCriteria(dd, item) ==
    IF Truthy(item.subtitle) /\ Truthy(item.text)
    THEN LET field == Classify(Lower(Strip(item.subtitle.text)))
         IN  IF field = "none" THEN dd
             ELSE [dd EXCEPT ![field] = Strip(item.text.text)]
    ELSE dd

\* The description of the detail page
SetDescription(dd, desc_elem) ==
    IF Truthy(desc_elem)
    THEN [dd EXCEPT !.description = Truncate(Strip(desc_elem.text))]
    ELSE dd

\* The recruiter link of the detail page
SetContact(dd, contact_elem) ==
    IF contact_elem
    THEN [dd EXCEPT !.contact_info = <<"Recruiter messaging available">>]
    ELSE dd

---------------------------------------------------------------------------
(* Initial state: a LinkedInJobScraper just constructed *)

Init ==
    /\ pc = "idle"
    /\ entry = "none"
    /\ jobs_data = <<>>
    /\ max_pages = 0
    /\ page = 0
    /\ n_cards = 0
    /\ card_i = 1
    /\ job_data = NoJob
    /\ job_url = None
    /\ detailed_data = Defaults
    /\ soup = NoSoup
    /\ item_i = 1
    /\ ret = Defaults
    /\ listing_reqs = <<>>
    /\ base = 0
    /\ expected = <<>>
    /\ last = NoPosition
    /\ aborted = FALSE
    /\ d_outcome = "none"
    /\ d_slept = 0
    /\ io = "none"

searchVars == <<max_pages, page, listing_reqs, aborted>>
histVars == <<base, expected, last>>
parseVars == <<n_cards, card_i>>
detailVars == <<job_data, job_url, detailed_data, soup, item_i, d_outcome, d_slept>>

---------------------------------------------------------------------------
(* search_jobs *)

\* A caller calls search_jobs(keywords, location, max_pages = mp)
SearchJobs(mp) ==
    /\ pc = "idle"
    /\ pc' = "s_loop"
    /\ entry' = "search_jobs"
    /\ max_pages' = mp
    /\ page' = 0
    /\ listing_reqs' = <<>>
    /\ base' = Len(jobs_data)
    /\ expected' = <<>>
    /\ last' = NoPosition
    /\ aborted' = FALSE
    /\ io' = "none"
    /\ UNCHANGED <<jobs_data, parseVars, detailVars, ret>>

\* self.session.get(url) raises: the except clause prints and breaks
ListingGetRaises ==
    /\ pc = "s_loop"
    /\ InRange(page, max_pages)
    /\ listing_reqs' = Append(listing_reqs, [start |-> Offset(page), outcome |-> "exception"])
    /\ aborted' = TRUE
    /\ pc' = AfterListingFailure
    /\ io' = "listing_get"
    /\ UNCHANGED <<entry, jobs_data, max_pages, page, parseVars, detailVars, ret, histVars>>

\* the listing page answers with a status other than 200: print and break
ListingGetBadStatus ==
    /\ pc = "s_loop"
    /\ InRange(page, max_pages)
    /\ \E status \in BadStatuses :
        /\ IsFailure(status)
        /\ listing_reqs' =
              Append(listing_reqs, [start |-> Offset(page), outcome |-> "bad_status"])
    /\ aborted' = TRUE
    /\ pc' = AfterListingFailure
    /\ io' = "listing_get"
    /\ UNCHANGED <<entry, jobs_data, max_pages, page, parseVars, detailVars, ret, histVars>>

\* the listing page answers 200 and parse_job_listing finds its cards
ListingGetOk ==
    /\ pc = "s_loop"
    /\ InRange(page, max_pages)
    /\ ~IsFailure(HttpOk)
    /\ \E n \in PageSizes(Len(jobs_data)) : n_cards' = n
    /\ card_i' = 1
    /\ listing_reqs' = Append(listing_reqs, [start |-> Offset(page), outcome |-> "ok"])
    /\ base' = Len(jobs_data)
    /\ expected' = <<>>
    /\ pc' = "p_loop"
    /\ io' = "listing_get"
    /\ UNCHANGED <<entry, jobs_data, max_pages, page, aborted, detailVars, ret, last>>

\* the listing page answers 200 and building the soup raises in parse_job_listing,
\* outside its per-card try: the except clause of search_jobs prints and breaks
ListingParseRaises ==
    /\ pc = "s_loop"
    /\ InRange(page, max_pages)
    /\ ~IsFailure(HttpOk)
    /\ listing_reqs' = Append(listing_reqs, [start |-> Offset(page), outcome |-> "ok"])
    /\ aborted' = TRUE
    /\ pc' = AfterListingFailure
    /\ io' = "listing_get"
    /\ UNCHANGED <<entry, jobs_data, max_pages, page, parseVars, detailVars, ret, histVars>>

\* break: the loop is left and search_jobs returns
SearchBreak ==
    /\ pc = "s_break"
    /\ pc' = "idle"
    /\ io' = "none"
    /\ max_pages' = 0
    /\ page' = 0
    /\ listing_reqs' = <<>>
    /\ aborted' = FALSE
    /\ base' = Len(jobs_data)
    /\ expected' = <<>>
    /\ last' = NoPosition
    /\ n_cards' = 0
    /\ card_i' = 1
    /\ UNCHANGED <<entry, jobs_data, detailVars, ret>>

\* time.sleep(random.uniform(2, 4)), then the next page
PageSleep ==
    /\ pc = "s_sleep"
    /\ page' = page + 1
    /\ pc' = "s_loop"
    /\ io' = "sleep"
    /\ UNCHANGED <<entry, jobs_data, max_pages, listing_reqs, aborted, parseVars,
                   detailVars, ret, histVars>>

\* range(max_pages) is exhausted: search_jobs returns
SearchDone ==
    /\ pc = "s_loop"
    /\ ~InRange(page, max_pages)
    /\ pc' = "idle"
    /\ io' = "none"
    /\ max_pages' = 0
    /\ page' = 0
    /\ listing_reqs' = <<>>
    /\ aborted' = FALSE
    /\ base' = Len(jobs_data)
    /\ expected' = <<>>
    /\ last' = NoPosition
    /\ n_cards' = 0
    /\ card_i' = 1
    /\ UNCHANGED <<entry, jobs_data, detailVars, ret>>

---------------------------------------------------------------------------
(* parse_job_listing and extract_job_data *)

\* A caller calls parse_job_listing(html_content) itself
ParseJobListing(n) ==
    /\ pc = "idle"
    /\ pc' = "p_loop"
    /\ entry' = "parse_job_listing"
    /\ n_cards' = n
    /\ card_i' = 1
    /\ page' = 0
    /\ max_pages' = 0
    /\ listing_reqs' = <<>>
    /\ base' = Len(jobs_data)
    /\ expected' = <<>>
    /\ last' = NoPosition
    /\ aborted' = FALSE
    /\ io' = "none"
    /\ UNCHANGED <<jobs_data, detailVars, ret>>

\* extract_job_data raises on the card: print and continue
CardRaise(card) ==
    /\ pc = "p_loop"
    /\ card_i <= n_cards
    /\ card.raises
    /\ card_i' = card_i + 1
    /\ io' = "print"
    /\ UNCHANGED <<pc, entry, jobs_data, searchVars, n_cards, detailVars, ret, histVars>>

\* extract_job_data returns None: an essential element is missing
CardSkip(card) ==
    /\ pc = "p_loop"
    /\ card_i <= n_cards
    /\ ~card.raises
    /\ ~HasEssential(card)
    /\ card_i' = card_i + 1
    /\ io' = "none"
    /\ UNCHANGED <<pc, entry, jobs_data, searchVars, n_cards, detailVars, ret, histVars>>

\* extract_job_data builds job_data and calls get_detailed_job_info
CardExtract(card) ==
    /\ pc = "p_loop"
    /\ card_i <= n_cards
    /\ ~card.raises
    /\ HasEssential(card)
    /\ job_data' = ListingFields(card)
    /\ expected' = Append(expected, job_data')
    /\ job_url' = job_data'.job_url
    /\ detailed_data' = Defaults
    /\ soup' = NoSoup
    /\ item_i' = 1
    /\ d_outcome' = "pending"
    /\ d_slept' = 0
    /\ pc' = "d_check"
    /\ io' = "none"
    /\ UNCHANGED <<entry, jobs_data, searchVars, parseVars, ret, base, last>>

\* get_detailed_job_info returns into extract_job_data, which merges the detail fields
\* and returns job_data; parse_job_listing appends it and goes to the next card
CardAppend ==
    /\ pc = "d_return"
    /\ entry # "get_detailed_job_info"
    /\ jobs_data' = AppendJob(jobs_data, Update(job_data, detailed_data))
    /\ card_i' = card_i + 1
    /\ pc' = "p_loop"
    /\ io' = "print"
    /\ job_data' = NoJob
    /\ job_url' = None
    /\ detailed_data' = Defaults
    /\ soup' = NoSoup
    /\ item_i' = 1
    /\ d_outcome' = "none"
    /\ d_slept' = 0
    /\ last' = <<page, card_i>>
    /\ UNCHANGED <<entry, searchVars, n_cards, ret, base, expected>>

\* the loop over job_cards is over: parse_job_listing returns into search_jobs
ParseDone ==
    /\ pc = "p_loop"
    /\ entry = "search_jobs"
    /\ card_i > n_cards
    /\ pc' = "s_sleep"
    /\ io' = "none"
    /\ UNCHANGED <<entry, jobs_data, searchVars, parseVars, detailVars, ret, histVars>>

\* the loop over job_cards is over: parse_job_listing returns to its direct caller
ParseReturn ==
    /\ pc = "p_loop"
    /\ entry = "parse_job_listing"
    /\ card_i > n_cards
    /\ pc' = "idle"
    /\ io' = "none"
    /\ base' = Len(jobs_data)
    /\ expected' = <<>>
    /\ last' = NoPosition
    /\ n_cards' = 0
    /\ card_i' = 1
    /\ UNCHANGED <<entry, jobs_data, searchVars, detailVars, ret>>

---------------------------------------------------------------------------
(* get_detailed_job_info *)

\* A caller calls get_detailed_job_info(job_url = u) itself
GetDetailedJobInfo(u) ==
    /\ pc = "idle"
    /\ pc' = "d_check"
    /\ entry' = "get_detailed_job_info"
    /\ job_url' = u
    /\ detailed_data' = Defaults
    /\ soup' = NoSoup
    /\ item_i' = 1
    /\ d_outcome' = "pending"
    /\ d_slept' = 0
    /\ ret' = Defaults
    /\ io' = "none"
    /\ UNCHANGED <<jobs_data, searchVars, parseVars, job_data, histVars>>

\* the URL is empty, None or 'N/A': return detailed_data at once
DetailSkip ==
    /\ pc = "d_check"
    /\ IsNoUrl(job_url)
    /\ d_outcome' = "skipped"
    /\ pc' = "d_return"
    /\ io' = "none"
    /\ UNCHANGED <<entry, jobs_data, searchVars, parseVars, job_data, job_url,
                   detailed_data, soup, item_i, d_slept, ret, histVars>>

\* self.session.get(job_url) raises: the except clause prints
DetailGetRaises ==
    /\ pc = "d_check"
    /\ ~IsNoUrl(job_url)
    /\ d_outcome' = "exception"
    /\ pc' = "d_return"
    /\ io' = "detail_get"
    /\ UNCHANGED <<entry, jobs_data, searchVars, parseVars, job_data, job_url,
                   detailed_data, soup, item_i, d_slept, ret, histVars>>

\* the detail page answers with a status other than 200: return detailed_data
DetailGetBadStatus ==
    /\ pc = "d_check"
    /\ ~IsNoUrl(job_url)
    /\ \E status \in BadStatuses : IsFailure(status)
    /\ d_outcome' = "bad_status"
    /\ pc' = "d_return"
    /\ io' = "detail_get"
    /\ UNCHANGED <<entry, jobs_data, searchVars, parseVars, job_data, job_url,
                   detailed_data, soup, item_i, d_slept, ret, histVars>>

\* the detail page answers 200
DetailGetOk ==
    /\ pc = "d_check"
    /\ ~IsNoUrl(job_url)
    /\ ~IsFailure(HttpOk)
    /\ \E p \in PagesFor(entry) : soup' = p
    /\ d_outcome' = "ok"
    /\ pc' = "d_desc"
    /\ io' = "detail_get"
    /\ UNCHANGED <<entry, jobs_data, searchVars, parseVars, job_data, job_url,
                   detailed_data, item_i, d_slept, ret, histVars>>

\* the description, then criteria_items = soup.find_all(...)
DetailDescription ==
    /\ pc = "d_desc"
    /\ detailed_data' = SetDescription(detailed_data, soup.desc)
    /\ item_i' = 1
    /\ pc' = "d_criteria"
    /\ io' = "none"
    /\ UNCHANGED <<entry, jobs_data, searchVars, parseVars, job_data, job_url, soup,
                   d_outcome, d_slept, ret, histVars>>

\* one turn of the loop over criteria_items
DetailCriteria ==
    /\ pc = "d_criteria"
    /\ item_i <= Len(soup.items)
    /\ detailed_data' = SetCriteria(detailed_data, soup.items[item_i])
    /\ item_i' = item_i + 1
    /\ io' = "none"
    /\ UNCHANGED <<pc, entry, jobs_data, searchVars, parseVars, job_data, job_url, soup,
                   d_outcome, d_slept, ret, histVars>>

\* after the loop: the recruiter link
DetailContact ==
    /\ pc = "d_criteria"
    /\ item_i > Len(soup.items)
    /\ detailed_data' = SetContact(detailed_data, soup.contact)
    /\ pc' = "d_sleep"
    /\ io' = "none"
    /\ UNCHANGED <<entry, jobs_data, searchVars, parseVars, job_data, job_url, soup,
                   item_i, d_outcome, d_slept, ret, histVars>>

\* time.sleep(random.uniform(1, 3)), the last statement of the try block
DetailSleep ==
    /\ pc = "d_sleep"
    /\ d_slept' = d_slept + 1
    /\ pc' = "d_return"
    /\ io' = "sleep"
    /\ UNCHANGED <<entry, jobs_data, searchVars, parseVars, job_data, job_url,
                   detailed_data, soup, item_i, d_outcome, ret, histVars>>

\* a statement that parses the detail page raises: the except clause prints, and
\* the function goes on to return detailed_data as it then is
DetailParseRaises ==
    /\ pc \in {"d_desc", "d_criteria"}
    /\ d_outcome' = "exception"
    /\ pc' = "d_return"
    /\ io' = "print"
    /\ UNCHANGED <<entry, jobs_data, searchVars, parseVars, job_data, job_url,
                   detailed_data, soup, item_i, d_slept, ret, histVars>>

\* return detailed_data to the caller of a direct call
DetailReturn ==
    /\ pc = "d_return"
    /\ entry = "get_detailed_job_info"
    /\ ret' = detailed_data
    /\ pc' = "idle"
    /\ io' = "none"
    /\ detailed_data' = Defaults
    /\ soup' = NoSoup
    /\ item_i' = 1
    /\ UNCHANGED <<entry, jobs_data, searchVars, parseVars, job_data, job_url,
                   d_outcome, d_slept, histVars>>

---------------------------------------------------------------------------
(* display_summary and save_to_excel *)

\* display_summary prints; it reads jobs_data
DisplaySummary ==
    /\ pc = "idle"
    /\ io' = "print"
    /\ UNCHANGED <<pc, entry, jobs_data, searchVars, parseVars, detailVars, ret, histVars>>

\* save_to_excel writes the file when there is data, and prints otherwise
SaveToExcel ==
    /\ pc = "idle"
    /\ io' = IF jobs_data = <<>> THEN "print" ELSE "file"
    /\ UNCHANGED <<pc, entry, jobs_data, searchVars, parseVars, detailVars, ret, histVars>>

---------------------------------------------------------------------------
(* Specifications *)

SearchStep ==
    \/ ListingGetRaises \/ ListingGetBadStatus \/ ListingGetOk \/ ListingParseRaises
    \/ SearchBreak \/ PageSleep \/ SearchDone

ParseStep ==
    \/ \E card \in Cards : CardRaise(card) \/ CardSkip(card) \/ CardExtract(card)
    \/ CardAppend
    \/ ParseDone
    \/ ParseReturn

DetailStep ==
    \/ DetailSkip \/ DetailGetRaises \/ DetailGetBadStatus \/ DetailGetOk
    \/ DetailDescription \/ DetailCriteria \/ DetailContact \/ DetailSleep
    \/ DetailParseRaises

\* The scraper as main() and other callers of the search drive it
Next ==
    \/ \E mp \in 0..MaxPages : SearchJobs(mp)
    \/ \E n \in PageSizes(Len(jobs_data)) : ParseJobListing(n)
    \/ DisplaySummary
    \/ SaveToExcel
    \/ SearchStep
    \/ ParseStep
    \/ DetailStep

Spec == Init /\ [][Next]_vars

\* get_detailed_job_info called on its own
NextDetail ==
    \/ \E u \in Urls : GetDetailedJobInfo(u)
    \/ DetailStep
    \/ DetailReturn

SpecDetail == Init /\ [][NextDetail]_vars

---------------------------------------------------------------------------
(* Properties *)

DetailPcs == {"d_check", "d_desc", "d_criteria", "d_sleep", "d_return"}
InSearch == entry = "search_jobs" /\ pc # "idle"
InParse == entry # "get_detailed_job_info" /\ pc \in DetailPcs \cup {"p_loop"}
HttpGets == {"listing_get", "detail_get"}
CriteriaFields == {"seniority_level", "employment_type", "job_function", "industries"}

\* The five listing fields of a record
ListingPart(r) ==
    [title |-> r.title, company |-> r.company, location |-> r.location,
     date_posted |-> r.date_posted, job_url |-> r.job_url]

LexLess(a, b) == a[1] < b[1] \/ (a[1] = b[1] /\ a[2] < b[2])

Failed(req) == req.outcome # "ok"
SomeListingFailed == \E i \in 1..Len(listing_reqs) : Failed(listing_reqs[i])
NoOffsetTwice ==
    \A i, j \in 1..Len(listing_reqs) :
        i # j => listing_reqs[i].start # listing_reqs[j].start

\* C1 as stated: during and at the end of search_jobs(max_pages = N), at most N
\* listing GETs have been issued, fewer than N once any listing request has
\* failed, and no offset has been requested twice.
C1_FewerRequestsOnFailure ==
    InSearch =>
        /\ Len(listing_reqs) <= max_pages
        /\ SomeListingFailed => Len(listing_reqs) < max_pages
        /\ NoOffsetTwice

\* C1 as amended: at most N listing GETs are issued in every run; a listing
\* request that fails is the last one issued and is itself one of those at most
\* N requests, so fewer than N listing GETs succeed; request i asks for offset
\* 25 * (i - 1), so no offset is requested twice.
C1_FailedRequestIsLast ==
    InSearch =>
        /\ Len(listing_reqs) <= max_pages
        /\ \A i \in 1..Len(listing_reqs) :
              /\ listing_reqs[i].start = PageSize * (i - 1)
              /\ Failed(listing_reqs[i]) => i = Len(listing_reqs) /\ pc = "s_break"
        /\ SomeListingFailed =>
              Cardinality({i \in 1..Len(listing_reqs) : ~Failed(listing_reqs[i])}) < max_pages
        /\ NoOffsetTwice

\* C1 witness: search_jobs(max_pages = 2) whose second listing request failed
C1_Witness ==
    /\ pc = "s_break"
    /\ max_pages = 2
    /\ Len(listing_reqs) = 2
    /\ listing_reqs[1].outcome = "ok"
    /\ listing_reqs[2].outcome = "bad_status"

\* C2: once a page cycle of search_jobs has failed (non-200 listing status, or an
\* exception reaching the except clause), the only step left is the return of
\* search_jobs: no GET is issued, no page is retried or skipped to, and the
\* Record Store stays as it is.
C2_AbortIsTerminal ==
    [][(InSearch /\ aborted) =>
          /\ pc' = "idle"
          /\ jobs_data' = jobs_data
          /\ io' \notin HttpGets \cup {"sleep"}]_vars

\* C2 witness: page 1 (the second page) failed after page 0 had given records
C2_Witness ==
    /\ InSearch
    /\ aborted
    /\ page = 1
    /\ jobs_data # <<>>
    /\ listing_reqs[Len(listing_reqs)].outcome = "exception"

\* C3 as stated: whenever get_detailed_job_info returns after a failure (non-200
\* status, or an exception caught anywhere in its try block), the detail set it
\* returns is the all-"N/A" default set.
C3_FailureReturnsDefaults ==
    (pc = "d_return" /\ d_outcome \in {"bad_status", "exception"}) =>
        detailed_data = Defaults

\* C4: a call of get_detailed_job_info with job_url "" or "N/A" goes straight to
\* its return with the default detail set, without GET, without sleep and
\* without touching the Record Store.
C4_NoUrlIsNoOp ==
    [][(pc = "d_check" /\ job_url \in {Empty, NA}) =>
          /\ pc' = "d_return"
          /\ d_outcome' = "skipped"
          /\ detailed_data' = Defaults
          /\ d_slept' = 0
          /\ io' = "none"
          /\ jobs_data' = jobs_data]_vars

\* C4 witness: a call with job_url "N/A" has returned while the store holds records
C4_Witness ==
    /\ pc = "d_return"
    /\ job_url = NA
    /\ d_outcome = "skipped"
    /\ detailed_data = Defaults
    /\ jobs_data # <<>>

\* C5 as stated: every record of the Record Store has a title, a company and a
\* job_url (none of them missing).
C5_RecordsHaveEssentials ==
    \A i \in 1..Len(jobs_data) :
        /\ jobs_data[i].title # None
        /\ jobs_data[i].company # None
        /\ jobs_data[i].job_url # None

C7_FailedDetailGivesDefaults ==
    [][(InParse /\ pc = "d_return"
            /\ d_outcome \in {"skipped", "bad_status", "exception"}) =>
          /\ jobs_data' = Append(jobs_data, Update(expected[Len(expected)], Defaults))
          /\ pc' = "p_loop"
          /\ card_i' = card_i + 1]_vars

\* The criteria items among the first n of the page that the loop files under a field
C8_Filed(field, n) ==
    {i \in 1..n :
        /\ soup.items[i].subtitle.present
        /\ soup.items[i].text.present
        /\ Classify(Lower(Strip(soup.items[i].subtitle.text))) = field}

C8_Max(S) == CHOOSE i \in S : \A j \in S : j <= i

C9_EveryGetIsFollowedByDelay ==
    (pc = "d_return" /\ d_outcome \in {"ok", "bad_status", "exception"}) =>
        d_slept = 1

\* C10: every step leaves the Record Store as it is or appends one record at its
\* end; the appending step is the return of the detail fetch of an accepted
\* card, and the record has that card's listing fields.
C10_AppendOnly ==
    [][\/ jobs_data' = jobs_data
       \/ /\ pc = "d_return"
          /\ d_outcome \in {"skipped", "bad_status", "exception", "ok"}
          /\ Len(jobs_data') = Len(jobs_data) + 1
          /\ SubSeq(jobs_data', 1, Len(jobs_data)) = jobs_data
          /\ ListingPart(jobs_data'[Len(jobs_data')]) = expected[Len(expected)]
          /\ Len(jobs_data') = base + Len(expected)]_vars

\* C10 witness: save_to_excel has written a store of two records from two searches
C10_Witness ==
    /\ pc = "idle"
    /\ io = "file"
    /\ Len(jobs_data) >= 2
    /\ jobs_data[1] # jobs_data[2]

=============================================================================
